---- MODULE Spec2Model ----
(***************************************************************************)
(* A model of contracts/StorageMarket.sol: provider registration and       *)
(* staking, storage requests, confirmations, proofs of storage,            *)
(* reputation and slashing, payment release and withdrawal.                *)
(*                                                                         *)
(* Every external function is modelled by an operator that maps the        *)
(* contract's storage (a "world" record) and the call's arguments to a     *)
(* result [ok, err, w]; a failed require reverts, i.e. returns the world   *)
(* the call started from.  Amounts are token units.  block.timestamp is    *)
(* written to the registrationTime of a provider and the timestamp of a    *)
(* request but never read by any function, so those write-only fields are  *)
(* left out of the records; a proof keeps its timestamp.                   *)
(*                                                                         *)
(* Specifications:                                                         *)
(*   Spec          every external function, valid and invalid arguments,   *)
(*                 three providers, two fingerprints, short proof logs;    *)
(*   SpecPay       valid arguments, two providers, one fingerprint, long   *)
(*                 proof logs (payment and withdrawal);                    *)
(*   SpecFail      SpecPay's calls with short logs, plus the failure       *)
(*                 branch of updateReputation, which no function of the    *)
(*                 contract reaches;                                       *)
(*   SpecRep       one provider and enough rejected proofs to bring its    *)
(*                 reputation to the floor;                                *)
(*   SpecLog       one provider, proofs submitted at different times and   *)
(*                 withdrawals between them;                               *)
(*   SpecLive      three providers that keep calling confirmStorage        *)
(*                 (weak fairness);                                        *)
(*   SpecErr       valid and invalid arguments, callers with and without   *)
(*                 the stake, one fingerprint;                             *)
(*   SpecCost      providers with different prices, requests of one and of *)
(*                 two months;                                             *)
(*   SpecReentrant a token whose transfers call back into the market       *)
(*                 before they return.                                     *)
(***************************************************************************)
EXTENDS Integers, Sequences, FiniteSets, TLC

\* ------------------------------------------------------------ constants
MIN_STAKE == 1000
REPUTATION_THRESHOLD == 80
GB == 1000000000
THIRTY_DAYS == 2592000
MIN_REDUNDANCY == 3
MAX_REDUNDANCY == 10
INITIAL_REPUTATION == 100
MAX_REPUTATION == 100
REPUTATION_PENALTY == 10
SLASH_DIVISOR == 10

\* ReentrancyGuard's two values of _status
NOT_ENTERED == "NOT_ENTERED"
ENTERED == "ENTERED"

\* ------------------------------------------------------------ bounds
MaxReg == 3        \* registrations (length of activeProviders), all inputs allowed
MaxFiles == 2      \* requests per user (length of userFiles[u]), all inputs allowed
FewReg == 2        \* registrations, valid inputs only
FewFiles == 1      \* requests per user, valid inputs only
MaxLog == 1        \* proofs in all logs together, all inputs allowed
MaxProofs == 4     \* proofs in all logs together, valid inputs only
MaxDepth == 1      \* suspended calls (token callbacks in progress)
MaxFail == 3       \* failed-proof reports
ManyFail == 10     \* failed-proof reports, one provider
UserFunds == 20    \* tokens a requester starts with
StakeFunds == 2    \* stakes a provider can afford at the start

\* ------------------------------------------------------------ universe
ZERO == "0x0"                       \* address(0)
MARKET == "market"                  \* address(this)
ProviderAddrs == {"p1", "p2", "p3"}
UserAddrs == {"u1"}
Addrs == ProviderAddrs \cup UserAddrs
AllAddr == Addrs \cup {ZERO}
Hashes == {"f1", "f2"}
Roots == {"r1"}
Endpoints == {"e1"}
Times == {1}                        \* block.timestamp
Capacities == {0, 2}
Prices == {0, 2}
Sizes == {0, 2}
Durations == {0, 1}
Redundancies == {2, 3}

VARIABLES
    providers,            \* mapping(address => Provider)
    activeProviders,      \* address[]
    storageRequests,      \* mapping(string => StorageRequest)
    proofs,               \* mapping(string => ProofOfStorage[])
    userFiles,            \* mapping(address => string[])
    pendingWithdrawals,   \* mapping(address => uint256)
    balance,              \* the token's balances
    status,               \* ReentrancyGuard._status
    released,             \* ghost: credited by releases to the current request of a fingerprint
    credited,             \* ghost: total ever credited to a provider's pendingWithdrawals
    withdrawn,            \* ghost: total tokens a provider received through withdrawEarnings
    stack,                \* calls suspended inside their token transfer
    failures,             \* failed-proof reports made so far
    last                  \* the call made by the last step and its outcome

ledgerVars == <<providers, activeProviders, storageRequests, proofs, userFiles,
                pendingWithdrawals, balance, status, released, credited, withdrawn>>
vars == <<providers, activeProviders, storageRequests, proofs, userFiles,
          pendingWithdrawals, balance, status, released, credited, withdrawn,
          stack, failures, last>>

World ==
    [providers |-> providers, activeProviders |-> activeProviders,
     storageRequests |-> storageRequests, proofs |-> proofs,
     userFiles |-> userFiles, pendingWithdrawals |-> pendingWithdrawals,
     balance |-> balance, status |-> status, released |-> released,
     credited |-> credited, withdrawn |-> withdrawn]

Commit(w) ==
    /\ providers' = w.providers
    /\ activeProviders' = w.activeProviders
    /\ storageRequests' = w.storageRequests
    /\ proofs' = w.proofs
    /\ userFiles' = w.userFiles
    /\ pendingWithdrawals' = w.pendingWithdrawals
    /\ balance' = w.balance
    /\ status' = w.status
    /\ released' = w.released
    /\ credited' = w.credited
    /\ withdrawn' = w.withdrawn

\* ------------------------------------------------------------ records
NoProvider ==
    [providerAddress |-> ZERO, availableStorage |-> 0, usedStorage |-> 0,
     pricePerGB |-> 0, stakedTokens |-> 0, reputation |-> 0,
     totalEarnings |-> 0, isActive |-> FALSE, endpoint |-> ""]

NoRequest ==
    [user |-> ZERO, fileHash |-> "", fileSize |-> 0, duration |-> 0,
     totalCost |-> 0, assignedProviders |-> <<>>, isActive |-> FALSE,
     providerConfirmed |-> [a \in AllAddr |-> FALSE], confirmationCount |-> 0]

Ok(w) == [ok |-> TRUE, err |-> "", w |-> w]
Revert(w0, e) == [ok |-> FALSE, err |-> e, w |-> w0]

\* ------------------------------------------------------------ token
\* IERC20.transferFrom / transfer of the storage token: moves amt or fails
\* (tokOk = FALSE: no allowance, staked tokens, or any other refusal).
tokenTransfer(w, from, to, amt, tokOk) ==
    IF tokOk /\ w.balance[from] >= amt
    THEN [ok |-> TRUE,
          w |-> [w EXCEPT !.balance =
                    [[w.balance EXCEPT ![from] = @ - amt] EXCEPT ![to] = @ + amt]]]
    ELSE [ok |-> FALSE, w |-> w]

\* ------------------------------------------------------------ registerProvider
\* mutant: the require on the price is missing
registerProviderStake_NoPriceCheck(w, sender, cap, price, tokOk) ==
    IF ~(cap > 0) THEN Revert(w, "Storage must be greater than 0")
    ELSE IF ~(w.balance[sender] >= MIN_STAKE)
         THEN Revert(w, "Insufficient tokens for staking")
    ELSE LET t == tokenTransfer(w, sender, MARKET, MIN_STAKE, tokOk)
         IN  IF t.ok THEN Ok(t.w) ELSE Revert(w, "Stake transfer failed")

\* lines 74-79: the requires and the stake transfer
registerProviderStake(w, sender, cap, price, tokOk) ==
    IF ~(cap > 0) THEN Revert(w, "Storage must be greater than 0")
    ELSE IF ~(price > 0) THEN Revert(w, "Price must be greater than 0")
    ELSE IF ~(w.balance[sender] >= MIN_STAKE)
         THEN Revert(w, "Insufficient tokens for staking")
    ELSE LET t == tokenTransfer(w, sender, MARKET, MIN_STAKE, tokOk)
         IN  IF t.ok THEN Ok(t.w) ELSE Revert(w, "Stake transfer failed")

\* mutant: registering clears the caller's pendingWithdrawals
registerProviderWrite_ClearsPending(w, sender, cap, price, endp) ==
    [w EXCEPT
        !.providers[sender] =
            [providerAddress |-> sender, availableStorage |-> cap,
             usedStorage |-> 0, pricePerGB |-> price,
             stakedTokens |-> MIN_STAKE, reputation |-> INITIAL_REPUTATION,
             totalEarnings |-> 0, isActive |-> TRUE, endpoint |-> endp],
        !.activeProviders = Append(@, sender),
        !.pendingWithdrawals[sender] = 0]

\* mutant: a record that exists keeps its usedStorage
registerProviderWrite_KeepsUsed(w, sender, cap, price, endp) ==
    [w EXCEPT
        !.providers[sender] =
            [providerAddress |-> sender, availableStorage |-> cap,
             usedStorage |-> w.providers[sender].usedStorage, pricePerGB |-> price,
             stakedTokens |-> MIN_STAKE, reputation |-> INITIAL_REPUTATION,
             totalEarnings |-> 0, isActive |-> TRUE, endpoint |-> endp],
        !.activeProviders = Append(@, sender)]

\* lines 81-94: the record is overwritten and the caller is pushed again
registerProviderWrite(w, sender, cap, price, endp) ==
    [w EXCEPT
        !.providers[sender] =
            [providerAddress |-> sender, availableStorage |-> cap,
             usedStorage |-> 0, pricePerGB |-> price,
             stakedTokens |-> MIN_STAKE, reputation |-> INITIAL_REPUTATION,
             totalEarnings |-> 0, isActive |-> TRUE, endpoint |-> endp],
        !.activeProviders = Append(@, sender)]

registerProvider(w, sender, cap, price, endp, tokOk) ==
    LET r == registerProviderStake(w, sender, cap, price, tokOk)
    IN  IF r.ok THEN Ok(registerProviderWrite(r.w, sender, cap, price, endp))
        ELSE r

\* ------------------------------------------------------------ cost and selection
RECURSIVE SumActivePrices(_, _)
\* lines 253-261, from index i on: <<totalPrice, activeCount>>
SumActivePrices(w, i) ==
    IF i > Len(w.activeProviders) THEN <<0, 0>>
    ELSE LET rest == SumActivePrices(w, i + 1)
             p == w.providers[w.activeProviders[i]]
         IN  IF p.isActive
             THEN <<rest[1] + p.pricePerGB, rest[2] + 1>>
             ELSE rest

calculateStorageCost(w, size, dur, red) ==
    LET sizeInGB == (size + GB - 1) \div GB
        durationInMonths == (dur + THIRTY_DAYS - 1) \div THIRTY_DAYS
        tot == SumActivePrices(w, 1)
    IN  IF ~(tot[2] > 0) THEN [ok |-> FALSE, cost |-> 0]
        ELSE [ok |-> TRUE,
              cost |-> sizeInGB * durationInMonths * (tot[1] \div tot[2]) * red]

\* the test of lines 278-280 on the provider's record as stored
Eligible(w, a, size) ==
    LET p == w.providers[a]
    IN  /\ p.isActive
        /\ p.availableStorage >= p.usedStorage + size
        /\ p.reputation >= REPUTATION_THRESHOLD

RECURSIVE SelectLoop(_, _, _, _, _)
\* the loop of lines 274-284 from index i on, sel being the slots filled so far
SelectLoop(w, size, red, i, sel) ==
    IF ~(i <= Len(w.activeProviders) /\ Len(sel) < red) THEN sel
    ELSE LET a == w.activeProviders[i]
         IN  IF Eligible(w, a, size)
             THEN SelectLoop(w, size, red, i + 1, Append(sel, a))
             ELSE SelectLoop(w, size, red, i + 1, sel)

\* an array of red slots (line 270); the slots the loop did not fill stay address(0)
selectProviders(w, size, red) ==
    LET sel == SelectLoop(w, size, red, 1, <<>>)
    IN  [i \in 1..red |-> IF i <= Len(sel) THEN sel[i] ELSE ZERO]

\* ------------------------------------------------------------ ReentrancyGuard
nonReentrantBefore(w) ==
    IF w.status = ENTERED THEN Revert(w, "ReentrancyGuard: reentrant call")
    ELSE Ok([w EXCEPT !.status = ENTERED])

nonReentrantAfter(w) == [w EXCEPT !.status = NOT_ENTERED]

\* ------------------------------------------------------------ requestStorage
\* mutant: the require on the redundancy is missing
requestStoragePay_NoRedundancyCheck(w0, w, sender, size, dur, red, tokOk) ==
    IF ~(size > 0) THEN Revert(w0, "File size must be greater than 0")
    ELSE IF ~(dur > 0) THEN Revert(w0, "Duration must be greater than 0")
    ELSE LET c == calculateStorageCost(w, size, dur, red)
         IN  IF ~c.ok THEN Revert(w0, "No active providers")
             ELSE IF ~(w.balance[sender] >= c.cost)
                  THEN Revert(w0, "Insufficient tokens")
             ELSE LET t == tokenTransfer(w, sender, MARKET, c.cost, tokOk)
                  IN  IF t.ok THEN [ok |-> TRUE, err |-> "", w |-> t.w, cost |-> c.cost]
                      ELSE Revert(w0, "Payment transfer failed")

\* mutant: a failed payment transfer does not undo what the call wrote before it
requestStoragePay_NoRollback(w0, w, sender, size, dur, red, tokOk) ==
    IF ~(size > 0) THEN Revert(w0, "File size must be greater than 0")
    ELSE IF ~(dur > 0) THEN Revert(w0, "Duration must be greater than 0")
    ELSE IF ~(red >= MIN_REDUNDANCY /\ red <= MAX_REDUNDANCY)
         THEN Revert(w0, "Redundancy must be between 3-10")
    ELSE LET c == calculateStorageCost(w, size, dur, red)
         IN  IF ~c.ok THEN Revert(w0, "No active providers")
             ELSE IF ~(w.balance[sender] >= c.cost)
                  THEN Revert(w0, "Insufficient tokens")
             ELSE LET t == tokenTransfer(w, sender, MARKET, c.cost, tokOk)
                  IN  IF t.ok THEN [ok |-> TRUE, err |-> "", w |-> t.w, cost |-> c.cost]
                      ELSE Revert(w, "Payment transfer failed")

\* lines 105-114: the requires, the cost and the payment transfer.
\* w0 is the world the call reverts to.
requestStoragePay(w0, w, sender, size, dur, red, tokOk) ==
    IF ~(size > 0) THEN Revert(w0, "File size must be greater than 0")
    ELSE IF ~(dur > 0) THEN Revert(w0, "Duration must be greater than 0")
    ELSE IF ~(red >= MIN_REDUNDANCY /\ red <= MAX_REDUNDANCY)
         THEN Revert(w0, "Redundancy must be between 3-10")
    ELSE LET c == calculateStorageCost(w, size, dur, red)
         IN  IF ~c.ok THEN Revert(w0, "No active providers")
             ELSE IF ~(w.balance[sender] >= c.cost)
                  THEN Revert(w0, "Insufficient tokens")
             ELSE LET t == tokenTransfer(w, sender, MARKET, c.cost, tokOk)
                  IN  IF t.ok THEN [ok |-> TRUE, err |-> "", w |-> t.w, cost |-> c.cost]
                      ELSE Revert(w0, "Payment transfer failed")

RECURSIVE AddUsed(_, _, _, _)
\* the loop of lines 133-135 from index i on
AddUsed(provs, sel, size, i) ==
    IF i > Len(sel) THEN provs
    ELSE AddUsed([provs EXCEPT ![sel[i]].usedStorage = @ + size], sel, size, i + 1)

\* lines 117-137: selection, the request's fields, used storage, the user's files
requestStorageWrite(w0, w, sender, f, size, dur, red, totalCost) ==
    LET sel == selectProviders(w, size, red)
    IN  IF ~(Len(sel) = red) THEN Revert(w0, "Not enough providers available")
        ELSE Ok([w EXCEPT
                !.storageRequests[f] =
                    [@ EXCEPT !.user = sender, !.fileHash = f, !.fileSize = size,
                              !.duration = dur, !.totalCost = totalCost,
                              !.assignedProviders = sel, !.isActive = TRUE,
                              !.confirmationCount = 0],
                !.providers = AddUsed(@, sel, size, 1),
                !.userFiles[sender] = Append(@, f),
                !.released[f] = 0])

requestStorage(w, sender, f, size, dur, red, tokOk) ==
    LET g == nonReentrantBefore(w)
    IN  IF ~g.ok THEN g
        ELSE LET r == requestStoragePay(w, g.w, sender, size, dur, red, tokOk)
             IN  IF ~r.ok THEN r
                 ELSE LET x == requestStorageWrite(w, r.w, sender, f, size, dur, red, r.cost)
                      IN  IF ~x.ok THEN x ELSE Ok(nonReentrantAfter(x.w))

\* ------------------------------------------------------------ confirmStorage
isAssignedProvider(w, f, a) ==
    \E i \in 1..Len(w.storageRequests[f].assignedProviders) :
        w.storageRequests[f].assignedProviders[i] = a

\* mutant: a repeated confirmation returns without reverting
confirmStorage_SilentRepeat(w, sender, f) ==
    LET request == w.storageRequests[f]
    IN  IF ~request.isActive THEN Revert(w, "Storage request not active")
        ELSE IF ~isAssignedProvider(w, f, sender)
             THEN Revert(w, "Not assigned to this file")
        ELSE IF request.providerConfirmed[sender] THEN Ok(w)
        ELSE Ok([w EXCEPT !.storageRequests[f].providerConfirmed[sender] = TRUE,
                          !.storageRequests[f].confirmationCount = @ + 1])

\* mutant: a repeated confirmation is counted again
confirmStorage_CountsRepeat(w, sender, f) ==
    LET request == w.storageRequests[f]
    IN  IF ~request.isActive THEN Revert(w, "Storage request not active")
        ELSE IF ~isAssignedProvider(w, f, sender)
             THEN Revert(w, "Not assigned to this file")
        ELSE Ok([w EXCEPT !.storageRequests[f].providerConfirmed[sender] = TRUE,
                          !.storageRequests[f].confirmationCount = @ + 1])

\* mutant: the caller need not be assigned
confirmStorage_NoAssignedCheck(w, sender, f) ==
    LET request == w.storageRequests[f]
    IN  IF ~request.isActive THEN Revert(w, "Storage request not active")
        ELSE IF request.providerConfirmed[sender] THEN Revert(w, "Already confirmed")
        ELSE Ok([w EXCEPT !.storageRequests[f].providerConfirmed[sender] = TRUE,
                          !.storageRequests[f].confirmationCount = @ + 1])

confirmStorage(w, sender, f) ==
    LET request == w.storageRequests[f]
    IN  IF ~request.isActive THEN Revert(w, "Storage request not active")
        ELSE IF ~isAssignedProvider(w, f, sender)
             THEN Revert(w, "Not assigned to this file")
        ELSE IF request.providerConfirmed[sender] THEN Revert(w, "Already confirmed")
        ELSE Ok([w EXCEPT !.storageRequests[f].providerConfirmed[sender] = TRUE,
                          !.storageRequests[f].confirmationCount = @ + 1])

\* ------------------------------------------------------------ reputation, slash, payment
\* mutant: the provider is not deactivated
slashProvider_StaysActive(w, a) ==
    LET slashAmount == w.providers[a].stakedTokens \div SLASH_DIVISOR
    IN  [w EXCEPT !.providers[a].stakedTokens = @ - slashAmount]

\* mutant: a tenth of MIN_STAKE is taken, whatever the stake is
slashProvider_OfMinStake(w, a) ==
    LET slashAmount == MIN_STAKE \div SLASH_DIVISOR
        staked == w.providers[a].stakedTokens - slashAmount
    IN  [w EXCEPT !.providers[a].stakedTokens = staked,
                  !.providers[a].isActive = IF staked < MIN_STAKE THEN FALSE ELSE @]

slashProvider(w, a) ==
    LET slashAmount == w.providers[a].stakedTokens \div SLASH_DIVISOR
        staked == w.providers[a].stakedTokens - slashAmount
    IN  [w EXCEPT !.providers[a].stakedTokens = staked,
                  !.providers[a].isActive = IF staked < MIN_STAKE THEN FALSE ELSE @]

\* mutant: a success always adds 1
updateReputation_NoCap(w, a, success) ==
    IF success
    THEN [w EXCEPT !.providers[a].reputation = @ + 1]
    ELSE LET w1 == IF w.providers[a].reputation > REPUTATION_PENALTY
                   THEN [w EXCEPT !.providers[a].reputation = @ - REPUTATION_PENALTY]
                   ELSE w
         IN  IF w1.providers[a].reputation < REPUTATION_THRESHOLD
             THEN slashProvider(w1, a)
             ELSE w1

\* mutant: the stake is slashed only below REPUTATION_THRESHOLD - 10
updateReputation_LowerThreshold(w, a, success) ==
    IF success
    THEN IF w.providers[a].reputation < MAX_REPUTATION
         THEN [w EXCEPT !.providers[a].reputation = @ + 1]
         ELSE w
    ELSE LET w1 == IF w.providers[a].reputation > REPUTATION_PENALTY
                   THEN [w EXCEPT !.providers[a].reputation = @ - REPUTATION_PENALTY]
                   ELSE w
         IN  IF w1.providers[a].reputation < REPUTATION_THRESHOLD - REPUTATION_PENALTY
             THEN slashProvider(w1, a)
             ELSE w1

updateReputation(w, a, success) ==
    IF success
    THEN IF w.providers[a].reputation < MAX_REPUTATION
         THEN [w EXCEPT !.providers[a].reputation = @ + 1]
         ELSE w
    ELSE LET w1 == IF w.providers[a].reputation > REPUTATION_PENALTY
                   THEN [w EXCEPT !.providers[a].reputation = @ - REPUTATION_PENALTY]
                   ELSE w
         IN  IF w1.providers[a].reputation < REPUTATION_THRESHOLD
             THEN slashProvider(w1, a)
             ELSE w1

\* mutant: the whole cost is credited
releasePayment_WholeCost(w, f, a) ==
    LET request == w.storageRequests[f]
        paymentPerProvider == request.totalCost
    IN  [w EXCEPT !.providers[a].totalEarnings = @ + paymentPerProvider,
                  !.pendingWithdrawals[a] = @ + paymentPerProvider,
                  !.released[f] = @ + paymentPerProvider,
                  !.credited[a] = @ + paymentPerProvider]

releasePayment(w, f, a) ==
    LET request == w.storageRequests[f]
        paymentPerProvider == request.totalCost \div Len(request.assignedProviders)
    IN  [w EXCEPT !.providers[a].totalEarnings = @ + paymentPerProvider,
                  !.pendingWithdrawals[a] = @ + paymentPerProvider,
                  !.released[f] = @ + paymentPerProvider,
                  !.credited[a] = @ + paymentPerProvider]

verifyProof(w, f, proofIndex) ==
    LET w1 == [w EXCEPT !.proofs[f][proofIndex].verified = TRUE]
        a == w1.proofs[f][proofIndex].provider
    IN  releasePayment(updateReputation(w1, a, TRUE), f, a)

\* mutant: the require on isActive is missing
submitProofOfStorage_NoActiveCheck(w, sender, f, root, now) ==
    IF ~isAssignedProvider(w, f, sender) THEN Revert(w, "Not assigned to this file")
    ELSE LET proof == [fileHash |-> f, provider |-> sender, merkleRoot |-> root,
                       timestamp |-> now, verified |-> FALSE]
             w1 == [w EXCEPT !.proofs[f] = Append(@, proof)]
         IN  Ok(verifyProof(w1, f, Len(w1.proofs[f])))

\* mutant: the new proof replaces the log
submitProofOfStorage_Overwrites(w, sender, f, root, now) ==
    IF ~isAssignedProvider(w, f, sender) THEN Revert(w, "Not assigned to this file")
    ELSE IF ~w.providers[sender].isActive THEN Revert(w, "Provider not active")
    ELSE LET proof == [fileHash |-> f, provider |-> sender, merkleRoot |-> root,
                       timestamp |-> now, verified |-> FALSE]
             w1 == [w EXCEPT !.proofs[f] = <<proof>>]
         IN  Ok(verifyProof(w1, f, Len(w1.proofs[f])))

\* now is block.timestamp
submitProofOfStorage(w, sender, f, root, now) ==
    IF ~isAssignedProvider(w, f, sender) THEN Revert(w, "Not assigned to this file")
    ELSE IF ~w.providers[sender].isActive THEN Revert(w, "Provider not active")
    ELSE LET proof == [fileHash |-> f, provider |-> sender, merkleRoot |-> root,
                       timestamp |-> now, verified |-> FALSE]
             w1 == [w EXCEPT !.proofs[f] = Append(@, proof)]
         IN  Ok(verifyProof(w1, f, Len(w1.proofs[f])))

\* ------------------------------------------------------------ withdrawEarnings
\* mutant: the require on the amount is missing
withdrawEarningsPay_NoRequire(w0, w, sender, tokOk) ==
    LET amount == w.pendingWithdrawals[sender]
        w1 == [w EXCEPT !.pendingWithdrawals[sender] = 0]
        t == tokenTransfer(w1, MARKET, sender, amount, tokOk)
    IN  IF t.ok THEN Ok([t.w EXCEPT !.withdrawn[sender] = @ + amount])
        ELSE Revert(w0, "Transfer failed")

\* mutant: the transfer's result is not required to be true
withdrawEarningsPay_Unchecked(w0, w, sender, tokOk) ==
    LET amount == w.pendingWithdrawals[sender]
    IN  IF ~(amount > 0) THEN Revert(w0, "No earnings to withdraw")
        ELSE LET w1 == [w EXCEPT !.pendingWithdrawals[sender] = 0]
                 t == tokenTransfer(w1, MARKET, sender, amount, tokOk)
             IN  IF t.ok THEN Ok([t.w EXCEPT !.withdrawn[sender] = @ + amount])
                 ELSE Ok(w1)

\* mutant: the pending amount is not zeroed
withdrawEarningsPay_NoZero(w0, w, sender, tokOk) ==
    LET amount == w.pendingWithdrawals[sender]
    IN  IF ~(amount > 0) THEN Revert(w0, "No earnings to withdraw")
        ELSE LET t == tokenTransfer(w, MARKET, sender, amount, tokOk)
             IN  IF t.ok THEN Ok([t.w EXCEPT !.withdrawn[sender] = @ + amount])
                 ELSE Revert(w0, "Transfer failed")

\* lines 237-241: the require, the zeroing, the transfer
withdrawEarningsPay(w0, w, sender, tokOk) ==
    LET amount == w.pendingWithdrawals[sender]
    IN  IF ~(amount > 0) THEN Revert(w0, "No earnings to withdraw")
        ELSE LET w1 == [w EXCEPT !.pendingWithdrawals[sender] = 0]
                 t == tokenTransfer(w1, MARKET, sender, amount, tokOk)
             IN  IF t.ok THEN Ok([t.w EXCEPT !.withdrawn[sender] = @ + amount])
                 ELSE Revert(w0, "Transfer failed")

withdrawEarnings(w, sender, tokOk) ==
    LET g == nonReentrantBefore(w)
    IN  IF ~g.ok THEN g
        ELSE LET r == withdrawEarningsPay(w, g.w, sender, tokOk)
             IN  IF ~r.ok THEN r ELSE Ok(nonReentrantAfter(r.w))

\* ------------------------------------------------------------ the state machine
Call(op, sender, f, size, dur, red, cap, price, r) ==
    [op |-> op, sender |-> sender, fileHash |-> f, size |-> size, duration |-> dur,
     redundancy |-> red, capacity |-> cap, price |-> price, endpoint |-> "",
     ok |-> r.ok, err |-> r.err]

CallRegister(sender, cap, price, endp, r) ==
    [Call("registerProvider", sender, "", 0, 0, 0, cap, price, r) EXCEPT !.endpoint = endp]

Init ==
    /\ providers = [a \in AllAddr |-> NoProvider]
    /\ activeProviders = <<>>
    /\ storageRequests = [f \in Hashes |-> NoRequest]
    /\ proofs = [f \in Hashes |-> <<>>]
    /\ userFiles = [a \in Addrs |-> <<>>]
    /\ pendingWithdrawals = [a \in AllAddr |-> 0]
    /\ balance = [a \in Addrs \cup {MARKET} |->
                    IF a \in ProviderAddrs THEN StakeFunds * MIN_STAKE
                    ELSE IF a \in UserAddrs THEN UserFunds ELSE 0]
    /\ status = NOT_ENTERED
    /\ released = [f \in Hashes |-> 0]
    /\ credited = [a \in AllAddr |-> 0]
    /\ withdrawn = [a \in AllAddr |-> 0]
    /\ stack = <<>>
    /\ failures = 0
    /\ last = Call("none", ZERO, "", 0, 0, 0, 0, 0, [ok |-> TRUE, err |-> ""])

Registered(a) == \E i \in 1..Len(activeProviders) : activeProviders[i] = a

RECURSIVE SumLen(_, _)
SumLen(logs, S) ==
    IF S = {} THEN 0
    ELSE LET f == CHOOSE x \in S : TRUE
         IN  Len(logs[f]) + SumLen(logs, S \ {f})

TotalProofs == SumLen(proofs, Hashes)

\* inputs with at most one invalid argument
RegisterInputs == {x \in Capacities \X Prices : x[1] > 0 \/ x[2] > 0}
RequestInputs ==
    {x \in Sizes \X Durations \X Redundancies :
        \/ x[1] > 0 /\ x[2] > 0
        \/ x[1] > 0 /\ x[3] >= MIN_REDUNDANCY
        \/ x[2] > 0 /\ x[3] >= MIN_REDUNDANCY}
ValidRegisterInputs == {x \in RegisterInputs : x[1] > 0 /\ x[2] > 0}
ValidRequestInputs ==
    {x \in RequestInputs : x[1] > 0 /\ x[2] > 0 /\ x[3] >= MIN_REDUNDANCY}

\* A transaction: the call's result is committed, or the call reverted and the
\* world is the one it started from.
RegisterProviderAt(callers, inputs, endpoints, maxReg) ==
    \E sender \in callers, x \in inputs, endp \in endpoints, tokOk \in BOOLEAN :
        /\ Len(activeProviders) < maxReg
        /\ LET r == registerProvider(World, sender, x[1], x[2], endp, tokOk)
           IN  /\ Commit(r.w)
               /\ last' = CallRegister(sender, x[1], x[2], endp, r)
        /\ UNCHANGED <<stack, failures>>

RegisterProviderBy(callers, inputs, maxReg) ==
    RegisterProviderAt(callers, inputs, Endpoints, maxReg)

RequestStorageBy(callers, hashes, inputs, maxFiles) ==
    \E sender \in callers, f \in hashes, x \in inputs, tokOk \in BOOLEAN :
        /\ Len(userFiles[sender]) < maxFiles
        /\ LET r == requestStorage(World, sender, f, x[1], x[2], x[3], tokOk)
           IN  /\ Commit(r.w)
               /\ last' = Call("requestStorage", sender, f, x[1], x[2], x[3], 0, 0, r)
        /\ UNCHANGED <<stack, failures>>

ConfirmStorageBy(callers, hashes) ==
    \E sender \in callers, f \in hashes :
        /\ LET r == confirmStorage(World, sender, f)
           IN  /\ Commit(r.w)
               /\ last' = Call("confirmStorage", sender, f, 0, 0, 0, 0, 0, r)
        /\ UNCHANGED <<stack, failures>>

SubmitProofOfStorageAt(callers, hashes, times, maxProofs) ==
    \E sender \in callers, f \in hashes, root \in Roots, now \in times :
        /\ TotalProofs < maxProofs
        /\ LET r == submitProofOfStorage(World, sender, f, root, now)
           IN  /\ Commit(r.w)
               /\ last' = Call("submitProofOfStorage", sender, f, 0, 0, 0, 0, 0, r)
        /\ UNCHANGED <<stack, failures>>

SubmitProofOfStorageBy(callers, hashes, maxProofs) ==
    SubmitProofOfStorageAt(callers, hashes, Times, maxProofs)

WithdrawEarningsBy(callers) ==
    \E sender \in callers, tokOk \in BOOLEAN :
        /\ LET r == withdrawEarnings(World, sender, tokOk)
           IN  /\ Commit(r.w)
               /\ last' = Call("withdrawEarnings", sender, "", 0, 0, 0, 0, 0, r)
        /\ UNCHANGED <<stack, failures>>

\* every external function, every input, short proof logs
RegisterProvider == RegisterProviderBy(ProviderAddrs, RegisterInputs, MaxReg)
RequestStorage == RequestStorageBy(UserAddrs, Hashes, RequestInputs, MaxFiles)
ConfirmStorage == ConfirmStorageBy(ProviderAddrs, Hashes)
SubmitProofOfStorage == SubmitProofOfStorageBy(ProviderAddrs, Hashes, MaxLog)
WithdrawEarnings == WithdrawEarningsBy(ProviderAddrs)

Next ==
    \/ RegisterProvider
    \/ RequestStorage
    \/ ConfirmStorage
    \/ SubmitProofOfStorage
    \/ WithdrawEarnings

Spec == Init /\ [][Next]_vars

\* valid inputs, two providers and one fingerprint, long proof logs
PayProviders == {"p1", "p2"}
PayRegister == RegisterProviderBy(PayProviders, ValidRegisterInputs, FewReg)
PayRequest == RequestStorageBy(UserAddrs, {"f1"}, ValidRequestInputs, FewFiles)
PayConfirm == ConfirmStorageBy(PayProviders, {"f1"})
PaySubmitProof == SubmitProofOfStorageBy(PayProviders, {"f1"}, MaxProofs)
PayWithdraw == WithdrawEarningsBy(PayProviders)

NextPay ==
    \/ PayRegister
    \/ PayRequest
    \/ PayConfirm
    \/ PaySubmitProof
    \/ PayWithdraw

SpecPay == Init /\ [][NextPay]_vars

\* The failure branch of updateReputation (and with it slashProvider) has no
\* caller that passes _success = false: verifyProof always reports success.
\* ReportFailure runs that branch for a registered provider, as a verifier that
\* rejects a proof would.
\* the provider whose proofs are rejected
FailingProviders == {"p1"}

ReportFailureUpTo(maxFail) ==
    \E a \in FailingProviders :
        /\ failures < maxFail
        /\ Registered(a)
        /\ Commit(updateReputation(World, a, FALSE))
        /\ failures' = failures + 1
        /\ last' = Call("updateReputation", a, "", 0, 0, 0, 0, 0, [ok |-> TRUE, err |-> ""])
        /\ UNCHANGED stack

ReportFailure == ReportFailureUpTo(MaxFail)

FailRegister == RegisterProviderBy(PayProviders, ValidRegisterInputs, FewReg)
FailRequest == RequestStorageBy(UserAddrs, {"f1"}, ValidRequestInputs, FewFiles)
FailConfirm == ConfirmStorageBy(PayProviders, {"f1"})
FailSubmitProof == SubmitProofOfStorageBy(PayProviders, {"f1"}, MaxLog)
FailWithdraw == WithdrawEarningsBy(PayProviders)

NextFail ==
    \/ FailRegister
    \/ FailRequest
    \/ FailConfirm
    \/ FailSubmitProof
    \/ FailWithdraw
    \/ ReportFailure

SpecFail == Init /\ [][NextFail]_vars

\* one provider, enough rejected proofs to bring its reputation to the floor
RepRegister == RegisterProviderBy(FailingProviders, ValidRegisterInputs, FewReg)
RepRequest == RequestStorageBy(UserAddrs, {"f1"}, ValidRequestInputs, FewFiles)
RepSubmitProof == SubmitProofOfStorageBy(FailingProviders, {"f1"}, MaxLog)
RepFailure == ReportFailureUpTo(ManyFail)

NextRep ==
    \/ RepRegister
    \/ RepRequest
    \/ RepSubmitProof
    \/ RepFailure

SpecRep == Init /\ [][NextRep]_vars

\* one provider, proofs submitted in different blocks, withdrawals between them
LogTimes == {1, 2}
LogRegister == RegisterProviderBy(FailingProviders, ValidRegisterInputs, FewReg)
LogRequest == RequestStorageBy(UserAddrs, {"f1"}, ValidRequestInputs, FewFiles)
LogSubmitProof == SubmitProofOfStorageAt(FailingProviders, {"f1"}, LogTimes, MaxProofs)
LogWithdraw == WithdrawEarningsBy(FailingProviders)

NextLog ==
    \/ LogRegister
    \/ LogRequest
    \/ LogSubmitProof
    \/ LogWithdraw

SpecLog == Init /\ [][NextLog]_vars

\* Three providers and one request; every provider keeps calling confirmStorage
\* (a transaction a provider sends is eventually mined).
LiveRegister == RegisterProviderBy(ProviderAddrs, ValidRegisterInputs, MaxReg)
LiveRequest == RequestStorageBy(UserAddrs, {"f1"}, ValidRequestInputs, FewFiles)
LiveConfirm(a) == ConfirmStorageBy({a}, {"f1"})

NextLive ==
    \/ LiveRegister
    \/ LiveRequest
    \/ \E a \in ProviderAddrs : LiveConfirm(a)

SpecLive ==
    /\ Init
    /\ [][NextLive]_vars
    /\ \A a \in ProviderAddrs : WF_vars(LiveConfirm(a))

\* valid and invalid arguments, callers with and without the stake, one
\* fingerprint
ErrCallers == {"p1", "u1"}
ErrEndpoints == {"e1", "e2"}
ErrRedundancies == {2, 3, 11}
ErrRequestInputs ==
    {x \in Sizes \X Durations \X ErrRedundancies :
        \/ x[1] > 0 /\ x[2] > 0
        \/ x[1] > 0 /\ x[3] = MIN_REDUNDANCY
        \/ x[2] > 0 /\ x[3] = MIN_REDUNDANCY}

ErrRegister == RegisterProviderAt(ErrCallers, RegisterInputs, ErrEndpoints, FewReg)
ErrRequest == RequestStorageBy(UserAddrs, {"f1"}, ErrRequestInputs, FewFiles)
ErrConfirm == ConfirmStorageBy(ErrCallers, {"f1"})
ErrSubmitProof == SubmitProofOfStorageBy(ErrCallers, {"f1"}, MaxLog)
ErrWithdraw == WithdrawEarningsBy(ErrCallers)

NextErr ==
    \/ ErrRegister
    \/ ErrRequest
    \/ ErrConfirm
    \/ ErrSubmitProof
    \/ ErrWithdraw

SpecErr == Init /\ [][NextErr]_vars

\* providers with different prices, requests of one and of two months
CostPrices == {1, 5}
CostDurations == {1, THIRTY_DAYS + 1}
CostRegisterInputs == {x \in Capacities \X CostPrices : x[1] > 0}
CostRequestInputs ==
    {x \in Sizes \X CostDurations \X Redundancies :
        x[1] > 0 /\ x[3] >= MIN_REDUNDANCY}

CostRegister == RegisterProviderBy(PayProviders, CostRegisterInputs, MaxReg)
CostRequest == RequestStorageBy(UserAddrs, {"f1"}, CostRequestInputs, FewFiles)

NextCost ==
    \/ CostRegister
    \/ CostRequest

SpecCost == Init /\ [][NextCost]_vars

\* ------------------------------------------------------------ token callbacks
\* storageToken is any IERC20: its transferFrom / transfer may call out (to the
\* sender's or the recipient's hook) before it returns, and the callee may call
\* the market again.  A call whose transfer does so is suspended on stack
\* between the transfer and the rest of its body; saved is the world the call
\* reverts to.
Frame(fn, sender, f, x, cap, price, endp, cost) ==
    [fn |-> fn, sender |-> sender, fileHash |-> f, size |-> x[1], duration |-> x[2],
     redundancy |-> x[3], capacity |-> cap, price |-> price, endpoint |-> endp,
     cost |-> cost, saved |-> World]

Top == stack[Len(stack)]
Pop == SubSeq(stack, 1, Len(stack) - 1)
InCallback(sender) ==
    Call("tokenCallback", sender, "", 0, 0, 0, 0, 0, [ok |-> TRUE, err |-> ""])

\* the provider whose hook the token calls
HookProviders == {"p1"}

EnterRegisterProvider ==
    \E sender \in HookProviders, x \in ValidRegisterInputs, endp \in Endpoints :
        /\ Len(stack) < MaxDepth
        /\ Len(activeProviders) < FewReg
        /\ LET r == registerProviderStake(World, sender, x[1], x[2], TRUE)
           IN  /\ r.ok
               /\ Commit(r.w)
        /\ stack' = Append(stack, Frame("registerProvider", sender, "", <<0, 0, 0>>,
                                        x[1], x[2], endp, 0))
        /\ last' = InCallback(sender)
        /\ UNCHANGED failures

EnterRequestStorage ==
    \E sender \in UserAddrs, x \in ValidRequestInputs :
        /\ Len(stack) < MaxDepth
        /\ Len(userFiles[sender]) < FewFiles
        /\ LET g == nonReentrantBefore(World)
               r == requestStoragePay(World, g.w, sender, x[1], x[2], x[3], TRUE)
           IN  /\ g.ok
               /\ r.ok
               /\ Commit(r.w)
               /\ stack' = Append(stack, Frame("requestStorage", sender, "f1", x,
                                               0, 0, "", r.cost))
        /\ last' = InCallback(sender)
        /\ UNCHANGED failures

EnterWithdrawEarnings ==
    \E sender \in HookProviders :
        /\ Len(stack) < MaxDepth
        /\ LET g == nonReentrantBefore(World)
               r == withdrawEarningsPay(World, g.w, sender, TRUE)
           IN  /\ g.ok
               /\ r.ok
               /\ Commit(r.w)
        /\ stack' = Append(stack, Frame("withdrawEarnings", sender, "", <<0, 0, 0>>,
                                        0, 0, "", 0))
        /\ last' = InCallback(sender)
        /\ UNCHANGED failures

\* the transfer returns true and the rest of the body runs
ReturnRegisterProvider ==
    /\ stack # <<>>
    /\ Top.fn = "registerProvider"
    /\ Commit(registerProviderWrite(World, Top.sender, Top.capacity, Top.price,
                                    Top.endpoint))
    /\ stack' = Pop
    /\ last' = CallRegister(Top.sender, Top.capacity, Top.price, Top.endpoint,
                            [ok |-> TRUE, err |-> ""])
    /\ UNCHANGED failures

ReturnRequestStorage ==
    /\ stack # <<>>
    /\ Top.fn = "requestStorage"
    /\ LET x == requestStorageWrite(Top.saved, World, Top.sender, Top.fileHash,
                                    Top.size, Top.duration, Top.redundancy, Top.cost)
       IN  /\ Commit(IF x.ok THEN nonReentrantAfter(x.w) ELSE x.w)
           /\ last' = Call("requestStorage", Top.sender, Top.fileHash, Top.size,
                           Top.duration, Top.redundancy, 0, 0, x)
    /\ stack' = Pop
    /\ UNCHANGED failures

ReturnWithdrawEarnings ==
    /\ stack # <<>>
    /\ Top.fn = "withdrawEarnings"
    /\ Commit(nonReentrantAfter(World))
    /\ stack' = Pop
    /\ last' = Call("withdrawEarnings", Top.sender, "", 0, 0, 0, 0, 0,
                    [ok |-> TRUE, err |-> ""])
    /\ UNCHANGED failures

\* the callee reverts, and with it the transfer and the suspended call
CallbackReverts ==
    /\ stack # <<>>
    /\ Commit(Top.saved)
    /\ stack' = Pop
    /\ last' = [Call(Top.fn, Top.sender, Top.fileHash, Top.size, Top.duration,
                     Top.redundancy, Top.capacity, Top.price,
                     [ok |-> FALSE, err |-> "Transfer reverted"])
                    EXCEPT !.endpoint = Top.endpoint]
    /\ UNCHANGED failures

\* calls from outside and, while a call is suspended, from the callee
HookRegister == RegisterProviderBy(PayProviders, ValidRegisterInputs, FewReg)
HookRequest == RequestStorageBy(UserAddrs, {"f1"}, ValidRequestInputs, FewFiles)
HookConfirm == ConfirmStorageBy(HookProviders, {"f1"})
HookSubmitProof == SubmitProofOfStorageBy(HookProviders, {"f1"}, MaxLog)
HookWithdraw == WithdrawEarningsBy(HookProviders)

NextReentrant ==
    \/ HookRegister
    \/ HookRequest
    \/ HookConfirm
    \/ HookSubmitProof
    \/ HookWithdraw
    \/ EnterRegisterProvider
    \/ EnterRequestStorage
    \/ EnterWithdrawEarnings
    \/ ReturnRegisterProvider
    \/ ReturnRequestStorage
    \/ ReturnWithdrawEarnings
    \/ CallbackReverts

SpecReentrant == Init /\ [][NextReentrant]_vars

\* ------------------------------------------------------------ claims
\* C1: for every fingerprint, the amounts credited to pendingWithdrawals by
\* releases for its request never add up to more than the request's totalCost.
C1_ReleasedWithinTotalCost ==
    \A f \in Hashes :
        storageRequests[f].isActive => released[f] <= storageRequests[f].totalCost

\* C2: requestStorage for a fingerprint that already has an active request fails
\* and leaves the request, the providers and the token balances unchanged.
C2_DuplicateRequestRejected ==
    [][(last'.op = "requestStorage" /\ storageRequests[last'.fileHash].isActive)
        => (~last'.ok /\ UNCHANGED <<storageRequests, providers, balance>>)]_vars

\* the registered providers that pass selectProviders' test for a file of this size
EligibleProviders(size) == {a \in Addrs : Registered(a) /\ Eligible(World, a, size)}

\* C3: requestStorage with valid arguments fails whenever fewer than redundancy
\* providers are eligible; then no request is persisted, no usedStorage changes
\* and no token stays escrowed.
C3_InsufficientProvidersRejected ==
    [][(/\ last'.op = "requestStorage"
        /\ last'.size > 0 /\ last'.duration > 0
        /\ last'.redundancy >= MIN_REDUNDANCY /\ last'.redundancy <= MAX_REDUNDANCY
        /\ Cardinality(EligibleProviders(last'.size)) < last'.redundancy)
        => (~last'.ok /\ UNCHANGED <<storageRequests, providers, balance>>)]_vars

\* C4: every provider record has usedStorage <= availableStorage.
C4_UsedWithinAvailable ==
    \A a \in Addrs : providers[a].usedStorage <= providers[a].availableStorage

\* C6: the assignedProviders of every persisted request are exactly redundancy
\* (3 to 10) pairwise distinct providers.
C6_AssignedDistinct ==
    \A f \in Hashes :
        storageRequests[f].isActive =>
            LET ap == storageRequests[f].assignedProviders
            IN  /\ Len(ap) >= MIN_REDUNDANCY /\ Len(ap) <= MAX_REDUNDANCY
                /\ \A i \in 1..Len(ap) : ap[i] # ZERO
                /\ \A i, j \in 1..Len(ap) : i # j => ap[i] # ap[j]

\* C7: withdrawEarnings by a caller whose pendingWithdrawals is zero fails and
\* changes nothing: pending map, providers, requests, proofs, balances.
C7_WithdrawZeroFails ==
    [][(last'.op = "withdrawEarnings" /\ pendingWithdrawals[last'.sender] = 0)
        => (~last'.ok /\ UNCHANGED ledgerVars)]_vars

C7_Witness ==
    /\ last.op = "withdrawEarnings" /\ ~last.ok
    /\ last.err = "No earnings to withdraw"
    /\ pendingWithdrawals[last.sender] = 0
    /\ Registered(last.sender)
    /\ \E a \in Addrs : pendingWithdrawals[a] > 0

\* C8: withdrawEarnings either zeroes the caller's pendingWithdrawals and pays
\* exactly the previous amount to the caller, or fails and leaves both as they were.
C8_WithdrawBothOrNeither ==
    [][last'.op = "withdrawEarnings" =>
        LET c == last'.sender
        IN  \/ /\ last'.ok
               /\ pendingWithdrawals'[c] = 0
               /\ balance'[c] = balance[c] + pendingWithdrawals[c]
               /\ balance'[MARKET] = balance[MARKET] - pendingWithdrawals[c]
            \/ /\ ~last'.ok
               /\ pendingWithdrawals' = pendingWithdrawals
               /\ balance' = balance]_vars

C8_Witness ==
    /\ last.op = "withdrawEarnings" /\ ~last.ok
    /\ last.err = "Transfer failed"
    /\ pendingWithdrawals[last.sender] > 0

\* C5: a provider whose stakedTokens is below MIN_STAKE is not active.
C5_ActiveImpliesStaked ==
    \A a \in AllAddr : providers[a].isActive => providers[a].stakedTokens >= MIN_STAKE

C5_Witness ==
    \E a \in Addrs :
        /\ last.op = "updateReputation" /\ last.sender = a
        /\ providers[a].providerAddress = a
        /\ providers[a].stakedTokens < MIN_STAKE
        /\ ~providers[a].isActive

\* C9: whatever the token's callee does during a transfer, the tokens a provider
\* has received through withdrawEarnings never exceed what was credited to its
\* pendingWithdrawals.
C9_NoDoubleWithdrawal ==
    \A a \in AllAddr : withdrawn[a] <= credited[a]

\* a withdrawEarnings made from inside withdrawEarnings' own transfer was refused
C9_Witness ==
    /\ stack # <<>>
    /\ Top.fn = "withdrawEarnings"
    /\ last.op = "withdrawEarnings" /\ last.sender = Top.sender
    /\ ~last.ok /\ last.err = "ReentrancyGuard: reentrant call"
    /\ withdrawn[Top.sender] > 0

LedgerOps == {"registerProvider", "requestStorage", "confirmStorage",
              "submitProofOfStorage", "withdrawEarnings"}

\* C10: while registerProvider or requestStorage is suspended in its token
\* transfer, with its own writes still to come, no call made into the market
\* executes and commits.
C10_NoReentrantCommit ==
    [][(/\ stack # <<>>
        /\ Top.fn \in {"registerProvider", "requestStorage"}
        /\ stack' = stack
        /\ last'.op \in LedgerOps)
        => ~last'.ok]_vars

\* C11: a confirmStorage by a provider whose confirmed flag for the fingerprint
\* is already set fails and leaves confirmationCount and the confirmed flags of
\* every request unchanged.
C11_SecondConfirmFails ==
    [][(/\ last'.op = "confirmStorage"
        /\ storageRequests[last'.fileHash].providerConfirmed[last'.sender])
        => (~last'.ok /\ UNCHANGED storageRequests)]_vars

C11_Witness ==
    /\ last.op = "confirmStorage" /\ ~last.ok
    /\ last.err = "Already confirmed"
    /\ storageRequests[last.fileHash].providerConfirmed[last.sender]
    /\ storageRequests[last.fileHash].confirmationCount >= 1

\* C12: every request has confirmationCount <= the length of assignedProviders.
C12_ConfirmationsWithinAssigned ==
    \A f \in Hashes :
        storageRequests[f].confirmationCount <= Len(storageRequests[f].assignedProviders)

\* every assigned provider that is not address(0) has confirmed
C12_Witness ==
    \E f \in Hashes :
        /\ storageRequests[f].isActive
        /\ storageRequests[f].confirmationCount >= 2
        /\ \A i \in 1..Len(storageRequests[f].assignedProviders) :
              LET a == storageRequests[f].assignedProviders[i]
              IN  a # ZERO => storageRequests[f].providerConfirmed[a]

\* C13: a call to registerProvider, requestStorage, confirmStorage,
\* submitProofOfStorage or withdrawEarnings that fails leaves providers,
\* activeProviders, requests, proofs, pendingWithdrawals, userFiles and the token
\* balances as they were before the call; a call that fails after its transfer
\* moved tokens (the transfer's callee reverted) leaves them as they were when
\* the call began.
C13_FailedCallChangesNothing ==
    [][(last'.op \in LedgerOps /\ ~last'.ok)
        => IF stack' = stack THEN UNCHANGED ledgerVars
           ELSE /\ stack # <<>>
                /\ World' = Top.saved]_vars

\* a requestStorage failed after its cost was transferred, and the requester has
\* the tokens back
C13_Witness ==
    /\ last.op = "requestStorage" /\ ~last.ok
    /\ last.err = "Transfer reverted"
    /\ Len(activeProviders) > 0
    /\ balance[last.sender] = UserFunds
    /\ ~storageRequests[last.fileHash].isActive
    /\ status = NOT_ENTERED

\* C14: requestStorage with _fileSize = 0, _duration = 0 or _redundancy outside
\* 3..10 fails one of the three argument requires, and no token has moved and
\* nothing was written.
C14_InvalidRequestRejected ==
    [][(/\ last'.op = "requestStorage"
        /\ \/ last'.size = 0
           \/ last'.duration = 0
           \/ last'.redundancy < MIN_REDUNDANCY
           \/ last'.redundancy > MAX_REDUNDANCY)
        => (/\ ~last'.ok
            /\ last'.err \in {"File size must be greater than 0",
                              "Duration must be greater than 0",
                              "Redundancy must be between 3-10"}
            /\ UNCHANGED ledgerVars)]_vars

\* a request with redundancy 11 that could have been paid and served was refused
C14_Witness ==
    /\ last.op = "requestStorage" /\ ~last.ok
    /\ last.redundancy > MAX_REDUNDANCY
    /\ last.err = "Redundancy must be between 3-10"
    /\ \E a \in Addrs : Registered(a) /\ providers[a].isActive
    /\ balance[last.sender] = UserFunds

\* a / b rounded up
CeilDiv(a, b) == IF a % b = 0 THEN a \div b ELSE (a \div b) + 1

\* the providers that are registered and active
ActiveProviderSet == {a \in Addrs : Registered(a) /\ providers[a].isActive}

RECURSIVE SumPrices(_)
SumPrices(S) ==
    IF S = {} THEN 0
    ELSE LET a == CHOOSE x \in S : TRUE
         IN  providers[a].pricePerGB + SumPrices(S \ {a})

\* the integer average of pricePerGB over the active providers
AvgActivePrice == SumPrices(ActiveProviderSet) \div Cardinality(ActiveProviderSet)

\* C15: the totalCost stored by a successful requestStorage is
\* ceil(size / 1e9) * ceil(duration / 30 days) * avgPrice * redundancy, avgPrice
\* being the integer average pricePerGB over the providers active at the call.
C15_TotalCostFormula ==
    [][(last'.op = "requestStorage" /\ last'.ok)
        => storageRequests'[last'.fileHash].totalCost =
              CeilDiv(last'.size, GB) * CeilDiv(last'.duration, THIRTY_DAYS)
                  * AvgActivePrice * last'.redundancy]_vars

\* C16: after a successful registerProvider(capacity, price, endpoint) the
\* caller's record (what getProvider returns) holds that capacity, price and
\* endpoint with usedStorage 0, stakedTokens MIN_STAKE, reputation 100 and
\* isActive true, and exactly MIN_STAKE tokens moved from the caller to the
\* market.
C16_RegisterRoundTrip ==
    [][(last'.op = "registerProvider" /\ last'.ok)
        => LET c == last'.sender
           IN  /\ providers'[c].providerAddress = c
               /\ providers'[c].availableStorage = last'.capacity
               /\ providers'[c].pricePerGB = last'.price
               /\ providers'[c].endpoint = last'.endpoint
               /\ providers'[c].usedStorage = 0
               /\ providers'[c].stakedTokens = MIN_STAKE
               /\ providers'[c].reputation = INITIAL_REPUTATION
               /\ providers'[c].isActive
               /\ balance'[c] = balance[c] - MIN_STAKE
               /\ balance'[MARKET] = balance[MARKET] + MIN_STAKE
               /\ \A a \in Addrs \ {c} : balance'[a] = balance[a]]_vars

\* a provider that was assigned a file registered again, with another endpoint
C16_Witness ==
    /\ last.op = "registerProvider" /\ last.ok
    /\ last.endpoint = "e2"
    /\ providers[last.sender].endpoint = "e2"
    /\ providers[last.sender].usedStorage = 0
    /\ \E f \in Hashes : isAssignedProvider(World, f, last.sender)

\* C17: registerProvider with _availableStorage = 0, with _pricePerGB = 0 or by
\* a caller whose balance is below MIN_STAKE fails: no record is written,
\* nothing is pushed on activeProviders and no token moves.
C17_InvalidRegisterRejected ==
    [][(/\ last'.op = "registerProvider"
        /\ \/ last'.capacity = 0
           \/ last'.price = 0
           \/ balance[last'.sender] < MIN_STAKE)
        => (~last'.ok /\ UNCHANGED <<providers, activeProviders, balance>>)]_vars

\* a caller holding fewer than MIN_STAKE tokens was refused
C17_Witness ==
    /\ last.op = "registerProvider" /\ ~last.ok
    /\ last.capacity > 0 /\ last.price > 0
    /\ last.err = "Insufficient tokens for staking"
    /\ balance[last.sender] < MIN_STAKE
    /\ providers[last.sender] = NoProvider

\* C18: submitProofOfStorage succeeds only for a caller that is assigned to the
\* fingerprint and is an active provider; by any other caller it fails, appends
\* no proof, changes no reputation and credits no payment.
C18_ProofByAssignedActiveOnly ==
    [][last'.op = "submitProofOfStorage"
        => LET c == last'.sender
               allowed == /\ isAssignedProvider(World, last'.fileHash, c)
                          /\ providers[c].isActive
           IN  /\ last'.ok => allowed
               /\ ~allowed => /\ ~last'.ok
                              /\ UNCHANGED <<proofs, providers, pendingWithdrawals>>]_vars

\* an assigned provider that slashing has deactivated was refused
C18_Witness ==
    /\ last.op = "submitProofOfStorage" /\ ~last.ok
    /\ last.err = "Provider not active"
    /\ isAssignedProvider(World, last.fileHash, last.sender)
    /\ providers[last.sender].stakedTokens < MIN_STAKE
    /\ proofs[last.fileHash] = <<>>

\* C19: confirmStorage succeeds only when the fingerprint's request is active and
\* the caller is one of its assigned providers and has not confirmed; then the
\* caller is marked confirmed and confirmationCount grows by exactly 1;
\* otherwise the call fails and changes nothing.
C19_ConfirmByAssignedOnce ==
    [][last'.op = "confirmStorage"
        => LET c == last'.sender
               f == last'.fileHash
               allowed == /\ storageRequests[f].isActive
                          /\ isAssignedProvider(World, f, c)
                          /\ ~storageRequests[f].providerConfirmed[c]
           IN  IF allowed
               THEN /\ last'.ok
                    /\ storageRequests'[f].providerConfirmed[c]
                    /\ storageRequests'[f].confirmationCount =
                          storageRequests[f].confirmationCount + 1
                    /\ \A a \in AllAddr \ {c} :
                          storageRequests'[f].providerConfirmed[a] =
                              storageRequests[f].providerConfirmed[a]
               ELSE ~last'.ok /\ UNCHANGED ledgerVars]_vars

\* the second of two assigned providers confirmed
C19_Witness ==
    /\ last.op = "confirmStorage" /\ last.ok
    /\ storageRequests[last.fileHash].providerConfirmed[last.sender]
    /\ storageRequests[last.fileHash].confirmationCount = 2

\* C20: every provider's reputation is between 0 and 100, and a successful proof
\* sets its submitter's reputation to min(100, reputation + 1).
C20_ReputationRange ==
    [][/\ \A a \in AllAddr : providers'[a].reputation >= 0
                             /\ providers'[a].reputation <= MAX_REPUTATION
       /\ (last'.op = "submitProofOfStorage" /\ last'.ok)
            => LET c == last'.sender
               IN  providers'[c].reputation =
                      IF providers[c].reputation + 1 < MAX_REPUTATION
                      THEN providers[c].reputation + 1 ELSE MAX_REPUTATION]_vars

\* a proof by a provider whose reputation had been lowered raised it by 1
C20_Witness ==
    /\ last.op = "submitProofOfStorage" /\ last.ok
    /\ failures > 0
    /\ Len(activeProviders) = 1
    /\ providers[last.sender].reputation =
          INITIAL_REPUTATION - failures * REPUTATION_PENALTY + 1

\* C21: pendingWithdrawals[p] decreases only by a successful withdrawEarnings
\* called by p, which sets it to 0; a release (a successful proof by p) does
\* not decrease it; no other operation changes it.
C21_PendingChanges ==
    [][\A p \in AllAddr :
          pendingWithdrawals'[p] # pendingWithdrawals[p]
              => \/ /\ last'.op = "withdrawEarnings" /\ last'.ok /\ last'.sender = p
                    /\ pendingWithdrawals'[p] = 0
                 \/ /\ last'.op = "submitProofOfStorage" /\ last'.ok /\ last'.sender = p
                    /\ pendingWithdrawals'[p] > pendingWithdrawals[p]]_vars

\* a provider withdrew, was credited again and holds that credit
C21_Witness ==
    \E p \in Addrs :
        /\ withdrawn[p] > 0
        /\ pendingWithdrawals[p] > 0
        /\ credited[p] = withdrawn[p] + pendingWithdrawals[p]
        /\ last.op = "submitProofOfStorage" /\ last.ok /\ last.sender = p

\* C22: every proof log is append-only: its length never decreases, a stored
\* record's fileHash, provider, merkleRoot and timestamp never change, a
\* verified record stays verified, and after every call every stored record is
\* verified.
C22_ProofLogAppendOnly ==
    [][\A f \in Hashes :
          /\ Len(proofs'[f]) >= Len(proofs[f])
          /\ \A i \in 1..Len(proofs[f]) :
                /\ proofs'[f][i].fileHash = proofs[f][i].fileHash
                /\ proofs'[f][i].provider = proofs[f][i].provider
                /\ proofs'[f][i].merkleRoot = proofs[f][i].merkleRoot
                /\ proofs'[f][i].timestamp = proofs[f][i].timestamp
                /\ proofs[f][i].verified => proofs'[f][i].verified
          /\ \A i \in 1..Len(proofs'[f]) : proofs'[f][i].verified]_vars

\* a proof was appended to a log that held one of another time
C22_Witness ==
    \E f \in Hashes :
        /\ last.op = "submitProofOfStorage" /\ last.ok /\ last.fileHash = f
        /\ Len(proofs[f]) >= 2
        /\ proofs[f][1].timestamp # proofs[f][Len(proofs[f])].timestamp
        /\ proofs[f][1].verified

\* C23: no proof is appended and no payment is released for a fingerprint
\* before its confirmationCount has reached its redundancy (every assigned
\* provider has confirmed).
C23_ProofsAfterConfirmations ==
    [][(last'.op = "submitProofOfStorage" /\ last'.ok)
        => storageRequests[last'.fileHash].confirmationCount =
              Len(storageRequests[last'.fileHash].assignedProviders)]_vars

RECURSIVE FilterEligible(_, _, _)
\* the entries of the registration list that are active, have the free capacity
\* and have the reputation, in registration order
FilterEligible(list, w, size) ==
    IF list = <<>> THEN <<>>
    ELSE IF Eligible(w, Head(list), size)
         THEN <<Head(list)>> \o FilterEligible(Tail(list), w, size)
         ELSE FilterEligible(Tail(list), w, size)

\* the first n entries of a list, or all of it
Take(list, n) == SubSeq(list, 1, IF n < Len(list) THEN n ELSE Len(list))

\* C24: the providers selected for a request are exactly the first min(N, k)
\* entries of the registration list that are active with free capacity >= size
\* and reputation >= 80, in registration order, k being the number of such
\* entries.
C24_SelectsFirstEligible ==
    [][(last'.op = "requestStorage" /\ last'.ok)
        => storageRequests'[last'.fileHash].assignedProviders =
              Take(FilterEligible(activeProviders, World, last'.size),
                   last'.redundancy)]_vars

\* C25: a failure report sets the provider's reputation to
\* max(0, reputation - 10), for every prior reputation.
C25_FailureLowersReputation ==
    [][last'.op = "updateReputation"
        => LET r == providers[last'.sender].reputation
           IN  providers'[last'.sender].reputation =
                  IF r - REPUTATION_PENALTY > 0 THEN r - REPUTATION_PENALTY ELSE 0]_vars

\* C26: a failure report after which the reputation is below 80 slashes once:
\* the stake loses floor(stake / 10) of the current stake, the provider is
\* deactivated iff the resulting stake is below MIN_STAKE, and no token moves;
\* a failure report after which the reputation is 80 or more changes neither
\* the stake nor the active flag.
C26_SlashOnce ==
    [][last'.op = "updateReputation"
        => LET p == providers[last'.sender]
               q == providers'[last'.sender]
           IN  /\ balance' = balance
               /\ pendingWithdrawals' = pendingWithdrawals
               /\ IF q.reputation < REPUTATION_THRESHOLD
                  THEN /\ q.stakedTokens =
                             p.stakedTokens - (p.stakedTokens \div SLASH_DIVISOR)
                       /\ q.isActive =
                             IF q.stakedTokens < MIN_STAKE THEN FALSE ELSE p.isActive
                  ELSE /\ q.stakedTokens = p.stakedTokens
                       /\ q.isActive = p.isActive]_vars

\* a second slash took a tenth of what the first had left
C26_Witness ==
    /\ last.op = "updateReputation"
    /\ providers[last.sender].reputation < REPUTATION_THRESHOLD
    /\ providers[last.sender].stakedTokens =
          (MIN_STAKE - MIN_STAKE \div SLASH_DIVISOR)
              - ((MIN_STAKE - MIN_STAKE \div SLASH_DIVISOR) \div SLASH_DIVISOR)
    /\ ~providers[last.sender].isActive
    /\ balance[MARKET] >= MIN_STAKE

\* C27: a successful submitProofOfStorage credits exactly
\* floor(totalCost / redundancy) to the submitter's totalEarnings and to its
\* pendingWithdrawals, and changes no other provider's totalEarnings or
\* pendingWithdrawals and no token balance.
C27_ProofCreditsShare ==
    [][(last'.op = "submitProofOfStorage" /\ last'.ok)
        => LET c == last'.sender
               request == storageRequests[last'.fileHash]
               share == request.totalCost \div Len(request.assignedProviders)
           IN  /\ Len(request.assignedProviders) >= MIN_REDUNDANCY
               /\ providers'[c].totalEarnings = providers[c].totalEarnings + share
               /\ pendingWithdrawals'[c] = pendingWithdrawals[c] + share
               /\ \A a \in AllAddr \ {c} :
                     /\ providers'[a].totalEarnings = providers[a].totalEarnings
                     /\ pendingWithdrawals'[a] = pendingWithdrawals[a]
               /\ balance' = balance]_vars

\* a proof was paid while another provider was registered
C27_Witness ==
    /\ last.op = "submitProofOfStorage" /\ last.ok
    /\ pendingWithdrawals[last.sender] > 0
    /\ providers[last.sender].totalEarnings > 0
    /\ \E a \in Addrs \ {last.sender} : Registered(a)

\* C28: a successful requestStorage moves exactly totalCost tokens from the
\* requester to the market, adds exactly the file size to the usedStorage of
\* each assigned provider, sets confirmationCount to 0 with no provider
\* confirmed, and leaves every other provider's record, pendingWithdrawals, the
\* proof logs and every other request unchanged.
C28_RequestFrame ==
    [][(last'.op = "requestStorage" /\ last'.ok)
        => LET f == last'.fileHash
               u == last'.sender
               cost == storageRequests'[f].totalCost
           IN  /\ balance'[u] = balance[u] - cost
               /\ balance'[MARKET] = balance[MARKET] + cost
               /\ \A a \in Addrs \ {u} : balance'[a] = balance[a]
               /\ \A a \in Addrs :
                     providers'[a] =
                        IF isAssignedProvider(World', f, a)
                        THEN [providers[a] EXCEPT !.usedStorage = @ + last'.size]
                        ELSE providers[a]
               /\ storageRequests'[f].confirmationCount = 0
               /\ \A a \in AllAddr : ~storageRequests'[f].providerConfirmed[a]
               /\ \A g \in Hashes \ {f} : storageRequests'[g] = storageRequests[g]
               /\ UNCHANGED <<pendingWithdrawals, proofs>>]_vars

RECURSIVE SumPending(_)
\* the sum of pendingWithdrawals over a set of addresses
SumPending(S) ==
    IF S = {} THEN 0
    ELSE LET a == CHOOSE x \in S : TRUE
         IN  pendingWithdrawals[a] + SumPending(S \ {a})

RECURSIVE SumStaked(_)
\* the sum of stakedTokens over a set of addresses
SumStaked(S) ==
    IF S = {} THEN 0
    ELSE LET a == CHOOSE x \in S : TRUE
         IN  providers[a].stakedTokens + SumStaked(S \ {a})

\* C29: the sum of all pendingWithdrawals is at most the market's token balance
\* minus the sum of all providers' stakedTokens.
C29_Solvency ==
    SumPending(AllAddr) <= balance[MARKET] - SumStaked(AllAddr)

\* C30: no address occurs twice in activeProviders: registerProvider by an
\* address that is on the list adds no entry and does not reset the provider's
\* usedStorage, reputation, totalEarnings or stakedTokens.
C30_RegisteredOnce ==
    [][/\ \A i, j \in 1..Len(activeProviders') :
             i # j => activeProviders'[i] # activeProviders'[j]
       /\ (last'.op = "registerProvider" /\ Registered(last'.sender))
            => LET c == last'.sender
               IN  /\ activeProviders' = activeProviders
                   /\ providers'[c].usedStorage = providers[c].usedStorage
                   /\ providers'[c].reputation = providers[c].reputation
                   /\ providers'[c].totalEarnings = providers[c].totalEarnings
                   /\ providers'[c].stakedTokens = providers[c].stakedTokens]_vars

\* C31: every address in the assignedProviders of a persisted request is a
\* registered provider that, when it was assigned, was active, had reputation
\* >= 80 and free capacity >= the file size; address(0) is never assigned.
C31_AssignedWereEligible ==
    [][(last'.op = "requestStorage" /\ last'.ok)
        => LET ap == storageRequests'[last'.fileHash].assignedProviders
           IN  \A i \in 1..Len(ap) :
                  /\ ap[i] # ZERO
                  /\ Registered(ap[i])
                  /\ Eligible(World, ap[i], last'.size)]_vars

\* C32: if every provider keeps calling confirmStorage, every created request
\* eventually has confirmationCount equal to its redundancy.
C32_EventuallyReady ==
    \A f \in Hashes :
        storageRequests[f].isActive
            ~> (storageRequests[f].confirmationCount =
                   Len(storageRequests[f].assignedProviders))

C34_ActiveInGoodStanding ==
    \A a \in Addrs :
        providers[a].isActive
            => /\ providers[a].reputation >= REPUTATION_THRESHOLD
               /\ providers[a].stakedTokens = MIN_STAKE

\* a failure report brought the provider to exactly the threshold and left it
\* active
C34_Witness ==
    /\ last.op = "updateReputation"
    /\ providers[last.sender].isActive
    /\ providers[last.sender].reputation = REPUTATION_THRESHOLD

\* C35: a provider deactivated by slashing never becomes active again, and no
\* operation raises its reputation or its stake.
C35_DeactivatedForGood ==
    [][\A a \in Addrs :
          (Registered(a) /\ ~providers[a].isActive)
              => /\ ~providers'[a].isActive
                 /\ providers'[a].reputation <= providers[a].reputation
                 /\ providers'[a].stakedTokens <= providers[a].stakedTokens]_vars

\* C36: after every step each provider's totalEarnings equals its
\* pendingWithdrawals plus what it has withdrawn so far, and is not lower than
\* before the step.
C36_EarningsAccount ==
    [][\A a \in Addrs :
          /\ providers'[a].totalEarnings = pendingWithdrawals'[a] + withdrawn'[a]
          /\ providers'[a].totalEarnings >= providers[a].totalEarnings]_vars

\* the number of slots of an assigned list that hold the address
Occurrences(list, a) == Cardinality({i \in 1..Len(list) : list[i] = a})

\* the bytes the persisted requests of the fingerprints in S assign to a
\* provider, one fileSize per slot
RECURSIVE AssignedBytes(_, _)
AssignedBytes(a, S) ==
    IF S = {} THEN 0
    ELSE LET f == CHOOSE x \in S : TRUE
         IN  (IF storageRequests[f].isActive
              THEN storageRequests[f].fileSize
                       * Occurrences(storageRequests[f].assignedProviders, a)
              ELSE 0)
             + AssignedBytes(a, S \ {f})

\* C37: in every reachable state each provider's usedStorage equals the sum
\* of fileSize over the persisted requests, once per slot of assignedProviders
\* that holds the provider.
C37_UsedStorageAccount ==
    \A a \in Addrs : providers[a].usedStorage = AssignedBytes(a, Hashes)

====
